---- MODULE Spec2Model ----
(***************************************************************************)
(* Model of gh-org-migrator (src/rust/src/main.rs): main loads its         *)
(* configuration, creates the output directory, lists the organization's   *)
(* repositories page by page and writes orgrepos.json, then, for each      *)
(* repository name in turn, lists its issues page by page and writes       *)
(* <name>.issues.json.  Every failure is a panic (expect / unwrap).        *)
(*                                                                         *)
(* The environment is the process environment, the disk and the GitHub     *)
(* API.  The upstream listings are fixed for a behaviour but unknown: a    *)
(* page is chosen the first time it is requested and served unchanged      *)
(* afterwards (variable api).                                              *)
(***************************************************************************)
EXTENDS Integers, Sequences, FiniteSets, TLC

\* ------------------------------------------------------------- bounds
\* Longest page chain the API serves for one listing.
MaxPages == 2
\* Number of times the program is run (only SpecRerun runs it again).
MaxRuns == 2

\* Repository names of the organization, and the item lists one page of the
\* repository listing may carry (a name may be served twice: the listing is
\* paginated by offset while the organization changes).
Names == {"a", "b"}
RepoPageItems == {<<>>, <<"a">>, <<"b">>, <<"a", "b">>}
\* Number of issues one page of an issue listing may carry.
IssuePageLens == {0, 2}

VARIABLES
    env,         \* process environment after dotenv(): which variables are set
    api,         \* upstream listings as served so far
    dir,         \* whether the output directory exists on disk
    fs,          \* files of the output directory: path -> text
    dir0, fs0,   \* the disk as the current run found it
    pc,          \* position of main
    pstate,      \* state of the running pagination loop
    cur,         \* page reference the loop requests next
    page,        \* local `page`: the page last fetched
    acc,         \* local `repos` / `issues`: the accumulated items
    repo_names,  \* local `repo_names` of main
    idx,         \* position of the for loop of main in repo_names
    log,         \* every operation of the current run, in order
    run,         \* number of the current run
    prev         \* the files the last successful run left

vars == <<env, api, dir, fs, dir0, fs0, pc, pstate, cur, page, acc,
          repo_names, idx, log, run, prev>>

\* ------------------------------------------------------------ helpers
Range(s) == {s[i] : i \in DOMAIN s}

RECURSIVE Flatten(_)
\* The items of a chain of pages, page after page.
Flatten(chain) ==
    IF chain = <<>> THEN <<>>
    ELSE Head(chain).items \o Flatten(Tail(chain))

NoPage == [items |-> <<>>, next |-> 0]

\* One logged operation.
Ev(op, loop, pg, name, file, ok) ==
    [op |-> op, loop |-> loop, page |-> pg, name |-> name, file |-> file, ok |-> ok]

\* ------------------------------------------------- paths and conversions
OrgReposFile == "orgrepos.json"

\* Variant: the repository name is left out of the path.
IssuesFile_NoName(repo_name) == "issues.json"

IssuesFile(repo_name) == repo_name \o ".issues.json"

\* to_string_pretty of a vector: a JSON array of the records, in order.
ToStringPretty(v) == <<"[">> \o v \o <<"]">>

\* repos.iter().map(|repo| repo.name.clone()).collect()
RepoNamesOf(repos) == [i \in DOMAIN repos |-> repos[i]]

\* Variant: the file is opened for appending.
WriteFile_Append(files, path, text) ==
    [f \in DOMAIN files \cup {path} |->
        IF f = path THEN (IF path \in DOMAIN files THEN files[path] \o text ELSE text)
        ELSE files[f]]

\* fs::write on success: creates or entirely replaces the file.
WriteFile(files, path, text) ==
    [f \in DOMAIN files \cup {path} |-> IF f = path THEN text ELSE files[f]]

\* fs::write on failure: the file is untouched (create failed) or holds a
\* strict prefix of the text (truncated, write_all failed part way).
FailedWrites(files, path, text) ==
    {files} \cup {WriteFile(files, path, SubSeq(text, 1, n)) : n \in 0..(Len(text) - 1)}

\* ------------------------------------------------------------ the API
IssueItem(name, p, k) == name \o "#" \o ToString(2 * (p - 1) + k)

IssuePageItems(name, p) ==
    {[k \in 1..n |-> IssueItem(name, p, k)] : n \in IssuePageLens}

\* The next reference of page p: none (0), or the reference of page p + 1.
NextRefs(p) == {0} \cup (IF p < MaxPages THEN {p + 1} ELSE {})

\* The chain of listing l served so far (l = "" is the organization's
\* repository listing, otherwise the issue listing of repository l).
Chain(l) == IF l = "" THEN api.repos ELSE api.issues[l]

\* The pages the API may answer a request for page p of listing l with.
Responses(l, p) ==
    IF p <= Len(Chain(l)) THEN {Chain(l)[p]}
    ELSE {[items |-> it, next |-> nx] :
            it \in (IF l = "" THEN RepoPageItems ELSE IssuePageItems(l, p)),
            nx \in NextRefs(p)}

Served(l, p, resp) ==
    IF p <= Len(Chain(l)) THEN api
    ELSE IF l = "" THEN [api EXCEPT !.repos = Append(@, resp)]
    ELSE [api EXCEPT !.issues[l] = Append(@, resp)]

\* -------------------------------------------------------------- Init
StaleFiles == [f \in {OrgReposFile} \cup {IssuesFile(n) : n \in Names} |-> <<"[", "stale", "]">>]

Init ==
    /\ env \in [token : BOOLEAN, org : BOOLEAN]
    /\ api = [repos |-> <<>>, issues |-> [n \in Names |-> <<>>]]
    /\ \/ dir = FALSE /\ fs = <<>>
       \/ dir = TRUE /\ fs = StaleFiles
    /\ dir0 = dir
    /\ fs0 = fs
    /\ pc = "config"
    /\ pstate = "Idle"
    /\ cur = 0
    /\ page = NoPage
    /\ acc = <<>>
    /\ repo_names = <<>>
    /\ idx = 0
    /\ log = <<>>
    /\ run = 1
    /\ prev = [valid |-> FALSE, fs |-> <<>>]

\* ------------------------------------------------------------- main
\* Variant: only the token is required.
LoadConfig_TokenOnly ==
    /\ pc = "config"
    /\ IF ~env.token
         THEN /\ pc' = "failed"
              /\ log' = Append(log, Ev("config", 0, 0, "GITHUB_ACCESS_TOKEN", "", FALSE))
         ELSE /\ pc' = "build"
              /\ log' = log
    /\ UNCHANGED <<env, api, dir, fs, dir0, fs0, pstate, cur, page, acc,
                   repo_names, idx, run, prev>>

\* Lines 10-13: both variables are required; the first missing one panics.
LoadConfig ==
    /\ pc = "config"
    /\ IF ~env.token
         THEN /\ pc' = "failed"
              /\ log' = Append(log, Ev("config", 0, 0, "GITHUB_ACCESS_TOKEN", "", FALSE))
         ELSE IF ~env.org
         THEN /\ pc' = "failed"
              /\ log' = Append(log, Ev("config", 0, 0, "ORGANIZATION", "", FALSE))
         ELSE /\ pc' = "build"
              /\ log' = log
    /\ UNCHANGED <<env, api, dir, fs, dir0, fs0, pstate, cur, page, acc,
                   repo_names, idx, run, prev>>

\* Line 15: the client is built, or build().unwrap() panics.
BuildClient ==
    /\ pc = "build"
    /\ \/ pc' = "mkdir" /\ log' = log
       \/ pc' = "failed" /\ log' = Append(log, Ev("build", 0, 0, "", "", FALSE))
    /\ UNCHANGED <<env, api, dir, fs, dir0, fs0, pstate, cur, page, acc,
                   repo_names, idx, run, prev>>

\* Lines 17-20: create_dir_all succeeds (the directory exists afterwards, its
\* files untouched) and fetch_repositories is entered, or it panics.
CreateDir ==
    /\ pc = "mkdir"
    /\ \/ /\ dir' = TRUE
          /\ pc' = "repos"
          /\ pstate' = "FetchPage"
          /\ cur' = 1
          /\ acc' = <<>>
          /\ log' = Append(log, Ev("mkdir", 0, 0, "", "", TRUE))
       \/ /\ pc' = "failed"
          /\ log' = Append(log, Ev("mkdir", 0, 0, "", "", FALSE))
          /\ UNCHANGED <<dir, pstate, cur, acc>>
    /\ UNCHANGED <<env, api, fs, dir0, fs0, page, repo_names, idx, run, prev>>

\* ------------------------------------------------- the pagination loop
\* send() / get_page() returns a page: it becomes `page`.
FetchOk(l, loop) ==
    \E resp \in Responses(l, cur) :
        /\ page' = resp
        /\ api' = Served(l, cur, resp)
        /\ pstate' = "HasNext"
        /\ log' = Append(log, Ev("fetch", loop, cur, l, "", TRUE))

\* Variant: a failed fetch is tried again.
FetchFail_Retry(l, loop) ==
    /\ pstate' = "FetchPage"
    /\ pc' = pc
    /\ log' = Append(log, Ev("fetch", loop, cur, l, "", FALSE))

\* send() / get_page() returns an error: expect panics.
FetchFail(l, loop) ==
    /\ pstate' = "Failed"
    /\ pc' = "failed"
    /\ log' = Append(log, Ev("fetch", loop, cur, l, "", FALSE))

\* Variant: the page's items are put in front of the accumulated ones.
Extend_Prepend ==
    /\ acc' = page.items \o acc
    /\ page' = [page EXCEPT !.items = <<>>]
    /\ IF page.next # 0
         THEN cur' = page.next /\ pstate' = "FetchPage"
         ELSE cur' = cur /\ pstate' = "Done"

\* Variant: the loop has no break.
Extend_NoBreak ==
    /\ acc' = acc \o page.items
    /\ page' = [page EXCEPT !.items = <<>>]
    /\ IF page.next # 0
         THEN cur' = page.next /\ pstate' = "FetchPage"
         ELSE cur' = cur /\ pstate' = "HasNext"

\* The loop body: extend with the page's items (take_items empties the
\* page), then follow the next reference or break.
Extend ==
    /\ acc' = acc \o page.items
    /\ page' = [page EXCEPT !.items = <<>>]
    /\ IF page.next # 0
         THEN cur' = page.next /\ pstate' = "FetchPage"
         ELSE cur' = cur /\ pstate' = "Done"

\* ------------------------------------------------ fetch_repositories
RepositoriesFetchOk ==
    /\ pc = "repos" /\ pstate = "FetchPage"
    /\ FetchOk("", 0)
    /\ UNCHANGED <<env, dir, fs, dir0, fs0, pc, cur, acc, repo_names, idx, run, prev>>

RepositoriesFetchFail ==
    /\ pc = "repos" /\ pstate = "FetchPage"
    /\ FetchFail("", 0)
    /\ UNCHANGED <<env, api, dir, fs, dir0, fs0, cur, page, acc, repo_names, idx,
                   run, prev>>

RepositoriesExtend ==
    /\ pc = "repos" /\ pstate = "HasNext"
    /\ Extend
    /\ UNCHANGED <<env, api, dir, fs, dir0, fs0, pc, repo_names, idx, log, run, prev>>

\* Lines 49-53: the names are collected, the records serialized and written,
\* and the names returned to main, whose for loop starts.
RepositoriesWrite ==
    /\ pc = "repos" /\ pstate = "Done"
    /\ repo_names' = RepoNamesOf(acc)
    /\ fs' = WriteFile(fs, OrgReposFile, ToStringPretty(acc))
    /\ log' = Append(log, Ev("write", 0, 0, "", OrgReposFile, TRUE))
    /\ pc' = "loop"
    /\ idx' = 1
    /\ pstate' = "Idle"
    /\ UNCHANGED <<env, api, dir, dir0, fs0, cur, page, acc, run, prev>>

\* Line 50: to_string_pretty fails; nothing is written.
RepositoriesSerializeFail ==
    /\ pc = "repos" /\ pstate = "Done"
    /\ repo_names' = RepoNamesOf(acc)
    /\ pc' = "failed"
    /\ log' = Append(log, Ev("serialize", 0, 0, "", "", FALSE))
    /\ UNCHANGED <<env, api, dir, fs, dir0, fs0, pstate, cur, page, acc, idx, run, prev>>

\* Variant: the result of fs::write is ignored.
RepositoriesWriteFail_Ignored ==
    /\ pc = "repos" /\ pstate = "Done"
    /\ repo_names' = RepoNamesOf(acc)
    /\ fs' \in FailedWrites(fs, OrgReposFile, ToStringPretty(acc))
    /\ log' = Append(log, Ev("write", 0, 0, "", OrgReposFile, FALSE))
    /\ pc' = "loop"
    /\ idx' = 1
    /\ pstate' = "Idle"
    /\ UNCHANGED <<env, api, dir, dir0, fs0, cur, page, acc, run, prev>>

\* Line 51: fs::write fails.
RepositoriesWriteFail ==
    /\ pc = "repos" /\ pstate = "Done"
    /\ repo_names' = RepoNamesOf(acc)
    /\ fs' \in FailedWrites(fs, OrgReposFile, ToStringPretty(acc))
    /\ pc' = "failed"
    /\ log' = Append(log, Ev("write", 0, 0, "", OrgReposFile, FALSE))
    /\ UNCHANGED <<env, api, dir, dir0, fs0, pstate, cur, page, acc, idx, run, prev>>

\* ------------------------------------------------------ the for loop
\* Lines 22-23: the next name is taken and fetch_issues entered.
ForNext ==
    /\ pc = "loop" /\ idx <= Len(repo_names)
    /\ pc' = "issues"
    /\ pstate' = "FetchPage"
    /\ cur' = 1
    /\ acc' = <<>>
    /\ UNCHANGED <<env, api, dir, fs, dir0, fs0, page, repo_names, idx, log, run, prev>>

\* Line 26: the names are exhausted; the completion message is printed.
Println ==
    /\ pc = "loop" /\ idx > Len(repo_names)
    /\ pc' = "done"
    /\ log' = Append(log, Ev("print", 0, 0, "", "", TRUE))
    /\ UNCHANGED <<env, api, dir, fs, dir0, fs0, pstate, cur, page, acc,
                   repo_names, idx, run, prev>>

\* ------------------------------------------------------ fetch_issues
IssuesFetchOk ==
    /\ pc = "issues" /\ pstate = "FetchPage"
    /\ FetchOk(repo_names[idx], idx)
    /\ UNCHANGED <<env, dir, fs, dir0, fs0, pc, cur, acc, repo_names, idx, run, prev>>

\* Variant: a failed fetch skips the repository and the loop goes on.
IssuesFetchFail_Skip ==
    /\ pc = "issues" /\ pstate = "FetchPage"
    /\ log' = Append(log, Ev("fetch", idx, cur, repo_names[idx], "", FALSE))
    /\ pc' = "loop"
    /\ idx' = idx + 1
    /\ pstate' = "Idle"
    /\ UNCHANGED <<env, api, dir, fs, dir0, fs0, cur, page, acc, repo_names, run, prev>>

\* Variant: a failed fetch writes what was accumulated before it panics.
IssuesFetchFail_Flush ==
    /\ pc = "issues" /\ pstate = "FetchPage"
    /\ fs' = WriteFile(fs, IssuesFile(repo_names[idx]), ToStringPretty(acc))
    /\ pstate' = "Failed"
    /\ pc' = "failed"
    /\ log' = Append(log, Ev("fetch", idx, cur, repo_names[idx], "", FALSE))
    /\ UNCHANGED <<env, api, dir, dir0, fs0, cur, page, acc, repo_names, idx, run, prev>>

IssuesFetchFail ==
    /\ pc = "issues" /\ pstate = "FetchPage"
    /\ FetchFail(repo_names[idx], idx)
    /\ UNCHANGED <<env, api, dir, fs, dir0, fs0, cur, page, acc, repo_names, idx,
                   run, prev>>

\* Variant: the next repository is started while pages remain.
IssuesExtend_NoDrain ==
    /\ pc = "issues" /\ pstate = "HasNext"
    /\ acc' = acc \o page.items
    /\ page' = [page EXCEPT !.items = <<>>]
    /\ IF page.next # 0
         THEN cur' = cur /\ pstate' = "Idle" /\ pc' = "loop" /\ idx' = idx + 1
         ELSE cur' = cur /\ pstate' = "Done" /\ pc' = pc /\ idx' = idx
    /\ UNCHANGED <<env, api, dir, fs, dir0, fs0, repo_names, log, run, prev>>

IssuesExtend ==
    /\ pc = "issues" /\ pstate = "HasNext"
    /\ Extend
    /\ UNCHANGED <<env, api, dir, fs, dir0, fs0, pc, repo_names, idx, log, run, prev>>

\* Lines 76-78: the issues are serialized and written; main's loop goes on.
IssuesWrite ==
    /\ pc = "issues" /\ pstate = "Done"
    /\ fs' = WriteFile(fs, IssuesFile(repo_names[idx]), ToStringPretty(acc))
    /\ log' = Append(log, Ev("write", idx, 0, repo_names[idx],
                             IssuesFile(repo_names[idx]), TRUE))
    /\ pc' = "loop"
    /\ idx' = idx + 1
    /\ pstate' = "Idle"
    /\ UNCHANGED <<env, api, dir, dir0, fs0, cur, page, acc, repo_names, run, prev>>

IssuesSerializeFail ==
    /\ pc = "issues" /\ pstate = "Done"
    /\ pc' = "failed"
    /\ log' = Append(log, Ev("serialize", idx, 0, repo_names[idx], "", FALSE))
    /\ UNCHANGED <<env, api, dir, fs, dir0, fs0, pstate, cur, page, acc,
                   repo_names, idx, run, prev>>

IssuesWriteFail ==
    /\ pc = "issues" /\ pstate = "Done"
    /\ fs' \in FailedWrites(fs, IssuesFile(repo_names[idx]), ToStringPretty(acc))
    /\ pc' = "failed"
    /\ log' = Append(log, Ev("write", idx, 0, repo_names[idx],
                             IssuesFile(repo_names[idx]), FALSE))
    /\ UNCHANGED <<env, api, dir, dir0, fs0, pstate, cur, page, acc,
                   repo_names, idx, run, prev>>

\* --------------------------------------------------------- a new run
\* The process has exited in success and the program is started again: a
\* fresh process on the disk the earlier run left, against the same upstream
\* data.
Rerun ==
    /\ pc = "done"
    /\ run < MaxRuns
    /\ run' = run + 1
    /\ prev' = [valid |-> TRUE, fs |-> fs]
    /\ dir0' = dir
    /\ fs0' = fs
    /\ pc' = "config"
    /\ pstate' = "Idle"
    /\ cur' = 0
    /\ page' = NoPage
    /\ acc' = <<>>
    /\ repo_names' = <<>>
    /\ idx' = 0
    /\ log' = <<>>
    /\ UNCHANGED <<env, api, dir, fs>>

Next ==
    \/ LoadConfig
    \/ BuildClient
    \/ CreateDir
    \/ RepositoriesFetchOk
    \/ RepositoriesFetchFail
    \/ RepositoriesExtend
    \/ RepositoriesWrite
    \/ RepositoriesSerializeFail
    \/ RepositoriesWriteFail
    \/ ForNext
    \/ Println
    \/ IssuesFetchOk
    \/ IssuesFetchFail
    \/ IssuesExtend
    \/ IssuesWrite
    \/ IssuesSerializeFail
    \/ IssuesWriteFail

\* One run of the program.
Spec == Init /\ [][Next]_vars

\* One run in which every step that can be taken eventually is: every fetch
\* returns (with a page or an error) and the single thread keeps running.
LiveSpec == Init /\ [][Next]_vars /\ WF_vars(Next)

\* The program run up to MaxRuns times in succession.
SpecRerun == Init /\ [][Next \/ Rerun]_vars

\* ------------------------------------------------------ the run so far
Last(s) == s[Len(s)]

\* The pagination loop that is running or ran last: 0 is fetch_repositories,
\* i > 0 is fetch_issues for repo_names[i]; and the listing it paginates.
CurLoop == idx
CurListing == IF idx = 0 THEN "" ELSE repo_names[idx]

\* The page fetches issued by loop `loop`, and the writes that succeeded.
Fetches(loop) == SelectSeq(log, LAMBDA e : e.op = "fetch" /\ e.loop = loop)
OkWrites == SelectSeq(log, LAMBDA e : e.op = "write" /\ e.ok)
WrittenFiles == {OkWrites[i].file : i \in DOMAIN OkWrites}
FailedWriteFiles == {log[i].file : i \in {j \in DOMAIN log : log[j].op = "write" /\ ~log[j].ok}}
Printed == \E i \in DOMAIN log : log[i].op = "print"
Distinct(s) == \A i, j \in DOMAIN s : i # j => s[i] # s[j]

\* The text a complete listing serializes to.
ListingText(l) == ToStringPretty(Flatten(Chain(l)))
\* A chain is complete when its last page carries no next reference.
Complete(chain) ==
    /\ chain # <<>>
    /\ Last(chain).next = 0
    /\ \A i \in 1..(Len(chain) - 1) : chain[i].next = i + 1

\* ----------------------------------------------------------------- C1
\* C1: a run that ends in success has made exactly R+1 successful writes, R
\* the number of names the lister returned (the names of the listing, in
\* order): orgrepos.json and <name>.issues.json for each returned name, all
\* present in the output directory.  The files are 1 + (number of distinct
\* names) many, which is R+1 when the names are pairwise distinct.
C1_FilesOnSuccess ==
    pc = "done" =>
        /\ repo_names = Flatten(api.repos)
        /\ Len(OkWrites) = Len(repo_names) + 1
        /\ WrittenFiles = {OrgReposFile} \cup {IssuesFile(n) : n \in Range(repo_names)}
        /\ Cardinality(WrittenFiles) = Cardinality(Range(repo_names)) + 1
        /\ Distinct(repo_names) => Cardinality(WrittenFiles) = Len(repo_names) + 1
        /\ dir /\ WrittenFiles \subseteq DOMAIN fs

C1_Witness ==
    /\ pc = "done"
    /\ Len(repo_names) = 2
    /\ Distinct(repo_names)
    /\ Cardinality(WrittenFiles) = 3

\* ----------------------------------------------------------------- C2
\* C2: when a pagination loop is done it has fetched the pages of its chain
\* once each, in chain order, and the accumulated list is the concatenation
\* of the pages' items in order.
C2_PaginationComplete ==
    pstate = "Done" =>
        LET F == Fetches(CurLoop)
            chain == Chain(CurListing)
        IN  /\ Complete(chain)
            /\ Len(F) = Len(chain)
            /\ \A i \in DOMAIN F : F[i].page = i /\ F[i].ok /\ F[i].name = CurListing
            /\ acc = Flatten(chain)

C2_Witness ==
    /\ pstate = "Done"
    /\ idx > 0
    /\ Len(Fetches(CurLoop)) = 2
    /\ Len(acc) = 4
    /\ Len(api.repos) = 2
    /\ Len(repo_names) = 3

\* ----------------------------------------------------------------- C3
\* C3: with GITHUB_ACCESS_TOKEN or ORGANIZATION missing the run can only be
\* at its start or failed, and has issued no request, created no directory
\* and written no file: the only operation is the failed configuration read.
C3_MissingConfig ==
    (~env.token \/ ~env.org) =>
        /\ pc \in {"config", "failed"}
        /\ \A i \in DOMAIN log : log[i].op = "config" /\ ~log[i].ok
        /\ dir = dir0
        /\ fs = fs0
        /\ api.repos = <<>>

C3_Witness ==
    /\ env.token /\ ~env.org
    /\ pc = "failed"
    /\ Len(log) = 1
    /\ ~dir

\* ----------------------------------------------------------------- C4
\* C4: a failed page fetch of the i-th repository is the last operation of
\* the run; by then the issues file of each of the repositories 1..i-1 has
\* been written once, with its whole listing, nothing has been written for
\* position i or a later one (the files written are orgrepos.json and those
\* of the names at positions before i), and no fetch for a later position
\* was issued.
C4_FetchFailureAtRepo ==
    \A j \in DOMAIN log :
        (log[j].op = "fetch" /\ ~log[j].ok /\ log[j].loop >= 1) =>
            LET i == log[j].loop IN
            /\ j = Len(log)
            /\ pc = "failed"
            /\ i <= Len(repo_names)
            /\ \A k \in 0..(i - 1) :
                 Len(SelectSeq(OkWrites, LAMBDA e : e.loop = k)) = 1
            /\ \A w \in DOMAIN OkWrites :
                 /\ OkWrites[w].loop < i
                 /\ OkWrites[w].loop >= 1 =>
                      /\ OkWrites[w].file = IssuesFile(repo_names[OkWrites[w].loop])
                      /\ fs[OkWrites[w].file] = ListingText(repo_names[OkWrites[w].loop])
            /\ WrittenFiles = {OrgReposFile} \cup {IssuesFile(repo_names[k]) : k \in 1..(i - 1)}
            /\ FailedWriteFiles = {}
            /\ \A e \in DOMAIN log : log[e].op = "fetch" => log[e].loop <= i

C4_Witness ==
    /\ pc = "failed"
    /\ log # <<>>
    /\ Last(log).op = "fetch" /\ ~Last(log).ok
    /\ Last(log).loop = 2 /\ Last(log).page = 2
    /\ repo_names[1] # repo_names[2]
    /\ Len(repo_names) = 3

\* ----------------------------------------------------------------- C5
\* C5: a run that ends in success leaves in every file it wrote the text of
\* the upstream listing, whatever the file held before; so a successful run
\* that follows a successful run leaves every file of the output directory
\* as the earlier run left it.
C5_RerunIdempotent ==
    pc = "done" =>
        /\ fs[OrgReposFile] = ListingText("")
        /\ \A n \in Range(repo_names) : fs[IssuesFile(n)] = ListingText(n)
        /\ \A f \in DOMAIN fs0 \ WrittenFiles : fs[f] = fs0[f]
        /\ prev.valid => fs = prev.fs

C5_Witness ==
    /\ pc = "done"
    /\ run = 2
    /\ prev.valid
    /\ Len(repo_names) = 2
    /\ Distinct(repo_names)
    /\ \E n \in Range(repo_names) : Len(fs[IssuesFile(n)]) = 6
    /\ fs[IssuesFile("a")] # <<"[", "stale", "]">>

\* ----------------------------------------------------------------- C6
\* C6: the completion message is the last operation of a run that ended in
\* success, after the successful write of orgrepos.json and of the issues
\* file of every position of repo_names; a failed operation is the last
\* operation of its run, which is then failed, has printed nothing, and has
\* left every file it wrote before holding what was written and every other
\* file (but the one whose write failed) as the run found it.
C6_CompletionOrFailure ==
    /\ Printed <=> pc = "done"
    /\ pc = "done" =>
         /\ Last(log).op = "print"
         /\ \A k \in 0..Len(repo_names) :
              \E w \in DOMAIN OkWrites :
                 /\ OkWrites[w].loop = k
                 /\ OkWrites[w].file = IF k = 0 THEN OrgReposFile ELSE IssuesFile(repo_names[k])
    /\ \A j \in DOMAIN log : ~log[j].ok => j = Len(log) /\ pc = "failed"
    /\ pc = "failed" =>
         /\ log # <<>> /\ ~Last(log).ok
         /\ \A w \in DOMAIN OkWrites :
              OkWrites[w].file \notin FailedWriteFiles =>
                 /\ OkWrites[w].file \in DOMAIN fs
                 /\ fs[OkWrites[w].file] = ListingText(OkWrites[w].name)
         /\ \A f \in DOMAIN fs0 \ (WrittenFiles \cup FailedWriteFiles) :
              f \in DOMAIN fs /\ fs[f] = fs0[f]

C6_Witness ==
    /\ pc = "failed"
    /\ Last(log).op = "write"
    /\ Last(log).loop = 2
    /\ Len(OkWrites) = 2
    /\ Last(log).file \notin WrittenFiles

\* ----------------------------------------------------------------- C7
\* C7: a step leaves FetchPage only for HasNext (the fetch succeeded) or
\* Failed (it failed), leaves HasNext for FetchPage when the page carries a
\* next reference and for Done when it carries none, enters Done, HasNext
\* and Failed in no other way, starts a loop at FetchPage only when no loop
\* is running, and no step is taken from Failed.
C7_Step ==
    /\ pstate # "Failed"
    /\ pstate = "FetchPage" =>
         /\ pstate' \in {"HasNext", "Failed"}
         /\ Len(log') = Len(log) + 1
         /\ Last(log').op = "fetch"
         /\ Last(log').ok <=> pstate' = "HasNext"
    /\ pstate = "HasNext" =>
         pstate' = IF page.next # 0 THEN "FetchPage" ELSE "Done"
    /\ (pstate' = "Done" /\ pstate # "Done") => pstate = "HasNext" /\ page.next = 0
    /\ pstate' = "HasNext" => pstate = "FetchPage"
    /\ pstate' = "Failed" => pstate = "FetchPage"
    /\ pstate' = "FetchPage" =>
         \/ pstate = "HasNext" /\ page.next # 0
         \/ pstate = "Idle"
    /\ pstate = "Done" => pstate' \in {"Done", "Idle"}

\* C7: every step of a run is such a step of the pagination state machine.
C7_StateMachine == [][C7_Step]_vars

C7_Witness ==
    /\ pstate = "Failed"
    /\ idx = 0
    /\ Last(log).page = 2

\* ----------------------------------------------------------------- C8
\* C8: a page fetch for position k >= 1 asks for the issues of repo_names[k]
\* and comes after the successful write of orgrepos.json and, for every
\* position j < k, after every page fetch for j and after the successful
\* write of j's issues file.
C8_Sequential ==
    \A q \in DOMAIN log :
        (log[q].op = "fetch" /\ log[q].loop >= 1) =>
            /\ log[q].loop <= Len(repo_names)
            /\ log[q].name = repo_names[log[q].loop]
            /\ \A p \in DOMAIN log :
                 (log[p].op \in {"fetch", "write"} /\ log[p].loop < log[q].loop) => p < q
            /\ \A j \in 0..(log[q].loop - 1) :
                 \E p \in 1..(q - 1) :
                    /\ log[p].op = "write" /\ log[p].ok /\ log[p].loop = j
                    /\ log[p].file = IF j = 0 THEN OrgReposFile ELSE IssuesFile(repo_names[j])
                    /\ \A f \in DOMAIN log :
                         (log[f].op = "fetch" /\ log[f].loop = j) => f < p

C8_Witness ==
    /\ pc = "issues"
    /\ idx = 2
    /\ Len(Fetches(1)) = 2
    /\ Len(Fetches(2)) = 2

\* ----------------------------------------------------------------- C9
\* C9: no page is fetched after a page without a next reference, a loop that
\* is done has just fetched such a page, every loop that fetches eventually
\* is Done or Failed, and the run eventually ends in success or in failure.
C9_StopsAtLastPage ==
    /\ \A l \in {""} \cup Names :
         \A i \in 1..(Len(Chain(l)) - 1) : Chain(l)[i].next # 0
    /\ pstate = "Done" =>
         /\ Last(Chain(CurListing)).next = 0
         /\ Last(Fetches(CurLoop)).page = Len(Chain(CurListing))

\* C9: the loop stops at the first page without a next reference, every
\* loop ends Done or Failed, and the run ends in success or in failure.
C9_Terminates ==
    /\ []C9_StopsAtLastPage
    /\ (pstate = "FetchPage") ~> (pstate \in {"Done", "Failed"})
    /\ <>(pc \in {"done", "failed"})

C9_Witness ==
    /\ pc = "done"
    /\ Len(api.repos) = 2
    /\ \E n \in Range(repo_names) : Len(api.issues[n]) = 2

\* ---------------------------------------------------------------- C10
\* C10: a file changes only in the write step of a loop that is Done, whose
\* chain is then complete; a write that succeeds leaves the text of the
\* whole listing; a step into Failed changes no file; and every file written
\* in the run (and not hit by a failed write since) holds its whole listing.
C10_Step ==
    /\ fs' # fs =>
         /\ pstate = "Done"
         /\ Complete(Chain(CurListing))
         /\ acc = Flatten(Chain(CurListing))
         /\ Last(log').op = "write"
         /\ Last(log').ok => fs'[Last(log').file] = ListingText(CurListing)
    /\ pstate' = "Failed" => fs' = fs

C10_Written ==
    \A w \in DOMAIN OkWrites :
        OkWrites[w].file \notin FailedWriteFiles =>
            /\ Complete(Chain(OkWrites[w].name))
            /\ fs[OkWrites[w].file] = ToStringPretty(Flatten(Chain(OkWrites[w].name)))

\* C10: no partial result is written: the files written hold their whole
\* listing in every state, and every step is such a step.
C10_NoPartialResult == []C10_Written /\ [][C10_Step]_vars

C10_Witness ==
    /\ pstate = "Failed"
    /\ idx = 2
    /\ Last(log).page = 2
    /\ IssuesFile(repo_names[2]) \in DOMAIN fs0
    /\ fs[IssuesFile(repo_names[2])] = <<"[", "stale", "]">>
    /\ fs[IssuesFile(repo_names[1])] # <<"[", "stale", "]">>

====
